---- MODULE Spec2Model ----
(***************************************************************************)
(* Outbound delivery pipeline of the gewechat channel                      *)
(* (channel/gewechat/gewechat_channel.py), the audio helpers it calls      *)
(* (voice/audio_convert.py), the provider transport (post_json) and the    *)
(* scoped static file server (Query.GET).                                  *)
(*                                                                         *)
(* Strings (paths, URLs, file names) are sequences of one-character        *)
(* strings, so that prefix tests, suffix tests, rindex and path            *)
(* normalisation are computed character by character, as the code does.   *)
(***************************************************************************)
EXTENDS Integers, Sequences, FiniteSets, TLC

\* ------------------------------------------------------------------ bounds

\* longest `file` query parameter of a GET request, in path components
MaxComps == 2
\* longest audio source of a voice reply, in units of AudioUnitMs
MaxAudioUnits == 5
\* largest total duration and largest cap tried on split_audio alone
MaxSplitD == 12
MaxSplitC == 5
\* how many faults (I/O, codec, provider, removal) the environment injects
\* into one behaviour at most
MaxFaults == 2
\* how far around each sample rate of interest the rates tried reach
MaxRateOff == 2

\* ------------------------------------------------------------------ strings

Digits == <<"0", "1", "2", "3", "4", "5", "6", "7", "8", "9">>

RECURSIVE IntToStr(_)
\* Python's decimal formatting of a natural number, f"{i}"
IntToStr(n) ==
    IF n < 10 THEN <<Digits[n + 1]>>
    ELSE IntToStr(n \div 10) \o <<Digits[(n % 10) + 1]>>

\* str.startswith
StartsWith(s, p) == Len(p) <= Len(s) /\ SubSeq(s, 1, Len(p)) = p

\* str.endswith
EndsWith(s, suf) ==
    Len(suf) <= Len(s) /\ SubSeq(s, Len(s) - Len(suf) + 1, Len(s)) = suf

\* p in s, for strings
Contains(s, p) ==
    \E k \in 1..(Len(s) - Len(p) + 1) : SubSeq(s, k, k + Len(p) - 1) = p

\* the set of positions of character ch in s
Positions(s, ch) == {k \in 1..Len(s) : s[k] = ch}

\* str.rindex, 1-based; 0 stands for the ValueError of a missing character
RIndex(s, ch) ==
    IF Positions(s, ch) = {} THEN 0
    ELSE CHOOSE k \in Positions(s, ch) : \A j \in Positions(s, ch) : j <= k

RECURSIVE SplitSlash(_)
\* str.split('/'): the components between slashes, empty ones kept
SplitSlash(s) ==
    IF Positions(s, "/") = {} THEN <<s>>
    ELSE LET k == CHOOSE a \in Positions(s, "/") :
                      \A j \in Positions(s, "/") : a <= j
         IN  <<SubSeq(s, 1, k - 1)>> \o SplitSlash(SubSeq(s, k + 1, Len(s)))

RECURSIVE JoinSlash(_)
\* '/'.join(comps)
JoinSlash(comps) ==
    IF comps = <<>> THEN <<>>
    ELSE IF Len(comps) = 1 THEN comps[1]
    ELSE comps[1] \o <<"/">> \o JoinSlash(Tail(comps))

\* os.path.join(a, b) on POSIX
PathJoin(a, b) ==
    IF StartsWith(b, <<"/">>) THEN b
    ELSE IF a = <<>> \/ EndsWith(a, <<"/">>) THEN a \o b
    ELSE a \o <<"/">> \o b

\* os.path.basename: what follows the last slash
Basename(p) == SubSeq(p, RIndex(p, "/") + 1, Len(p))

RECURSIVE NormComps(_, _, _)
\* the loop of posixpath.normpath over the split components
NormComps(comps, acc, rooted) ==
    IF comps = <<>> THEN acc
    ELSE LET c == Head(comps)
         IN  IF c = <<>> \/ c = <<".">> THEN NormComps(Tail(comps), acc, rooted)
             ELSE IF c # <<".", ".">>
                     \/ (~rooted /\ acc = <<>>)
                     \/ (acc # <<>> /\ acc[Len(acc)] = <<".", ".">>)
                  THEN NormComps(Tail(comps), Append(acc, c), rooted)
             ELSE IF acc # <<>>
                  THEN NormComps(Tail(comps), SubSeq(acc, 1, Len(acc) - 1), rooted)
             ELSE NormComps(Tail(comps), acc, rooted)

\* posixpath.normpath
NormPath(p) ==
    IF p = <<>> THEN <<".">>
    ELSE LET rooted == StartsWith(p, <<"/">>)
             two    == StartsWith(p, <<"/", "/">>) /\ ~StartsWith(p, <<"/", "/", "/">>)
             body   == JoinSlash(NormComps(SplitSlash(p), <<>>, rooted))
             lead   == IF two THEN <<"/", "/">> ELSE IF rooted THEN <<"/">> ELSE <<>>
             r      == lead \o body
         IN  IF r = <<>> THEN <<".">> ELSE r

\* os.getcwd(): the process working directory, "/w"
Cwd == <<"/", "w">>

\* os.path.abspath
AbsPath(p) == NormPath(IF StartsWith(p, <<"/">>) THEN p ELSE PathJoin(Cwd, p))

\* os.path.relpath(p, os.getcwd()) for a path p below the working directory
RelPathFromCwd(p) ==
    IF StartsWith(AbsPath(p), Cwd \o <<"/">>)
    THEN SubSeq(AbsPath(p), Len(Cwd) + 2, Len(AbsPath(p)))
    ELSE AbsPath(p)

\* ------------------------------------------------------------------ state

VARIABLES
    fs,          \* the absolute paths of the regular files that exist
    req,         \* the `file` parameter of the last GET request
    resp,        \* the answer to the last GET request
    arg,         \* the arguments of the last call of split_audio made on its own
    ret,         \* what that call returned
    pc,          \* pc[c]: where delivery call c stands
    reply,       \* reply[c]: the reply call c delivers (type, content, audio length)
    faults,      \* how many more faults the environment may inject
    temp_files,  \* temp_files[c]: the cleanup list of send_voice / the temp path of send_image, send_video
    files,       \* files[c]: the segment paths split_audio has produced so far
    silk_files,  \* silk_files[c]: the (silk_url, duration) pairs converted so far
    i,           \* i[c]: the loop index of the running loop of call c
    log,         \* log[c]: the provider calls and pacing delays of call c, in order
    raised,      \* raised[c]: send() of call c ended by raising to its caller
    created,     \* created[c]: the paths call c has created or overwritten
    deleted,     \* deleted[c]: the paths call c has removed
    conv,        \* conv[c]: per converted segment, the silk path, the value mp3_to_silk
                 \* returned, and whether send_voice took the conversion as done
    rmFailed,    \* rmFailed[c]: an os.remove of call c failed
    uuids,       \* how many uuid4 values have been drawn
    video_info,  \* video_info[c]: how get_video_info of call c ended
    input,       \* the arguments of the last helper function called on its own
    output       \* what that helper returned or wrote

srv   == <<req, resp>>
pure  == <<arg, ret, input, output>>
calls == <<pc, reply, faults, temp_files, files, silk_files, i, log, raised,
           created, deleted, conv, rmFailed, uuids, video_info>>
vars  == <<fs, srv, pure, calls>>

\* ------------------------------------------------------------------ file server

\* the temp root the server allows: abspath(join(getcwd(), 'tmp'))
TmpRoot == AbsPath(PathJoin(Cwd, <<"t", "m", "p">>))

\* a directory exists when it is the working directory, the temp directory,
\* one of their ancestors, or a file lies below it
IsDir(a) ==
    \/ a = <<"/">>
    \/ \E f \in fs \cup {TmpRoot \o <<"/">>} : StartsWith(f, a \o <<"/">>)

\* os.path.exists (False for the empty path and for None)
Exists(p) == p # <<>> /\ (AbsPath(p) \in fs \/ IsDir(AbsPath(p)))

\* Query.GET: the answer to a request with query parameter file = file_path
GET(file_path) ==
    LET clean_path == AbsPath(PathJoin(Cwd, file_path))
        tmp_dir    == TmpRoot
    IN  IF file_path = <<>> THEN [status |-> "alive", path |-> <<>>]
        ELSE IF ~StartsWith(clean_path, tmp_dir)
             THEN [status |-> "forbidden", path |-> clean_path]
        ELSE IF Exists(clean_path)
             THEN IF AbsPath(clean_path) \in fs
                  THEN [status |-> "bytes", path |-> clean_path]
                  \* open() of a directory raises IsADirectoryError
                  ELSE [status |-> "error", path |-> clean_path]
        ELSE [status |-> "notfound", path |-> clean_path]

\* the path components a request is built from
Comps == {<<"t", "m", "p">>, <<"t", "m", "p", "x">>, <<".", ".">>, <<"a">>}

\* the files a server state may hold: inside the temp root, beside it in a
\* directory whose name only starts with "tmp", in the working directory and
\* outside of it
ServedFiles ==
    { <<"/", "w", "/", "t", "m", "p", "/", "a">>,
      <<"/", "w", "/", "t", "m", "p", "x", "/", "a">>,
      <<"/", "w", "/", "a">>,
      <<"/", "a">> }

\* the `file` parameters tried: empty, relative and absolute paths of up to
\* MaxComps components, and the absolute paths of the served files
Requests ==
    LET seqs == UNION {[1..k -> Comps] : k \in 1..MaxComps}
    IN  {<<>>} \cup {JoinSlash(q) : q \in seqs}
               \cup {<<"/">> \o JoinSlash(q) : q \in seqs}
               \cup ServedFiles

NoResp == [status |-> "none", path |-> <<>>]

\* one GET request served: web.input(file=""), then Query.GET
Get ==
    /\ \E file \in Requests :
           /\ req' = file
           /\ resp' = GET(file)
    /\ UNCHANGED <<fs, pure, calls>>

\* ------------------------------------------------------------------ split_audio

RECURSIVE Range(_, _, _)
\* range(start, stop, step) for a positive step, as a sequence
Range(start, stop, step) ==
    IF start >= stop THEN <<>>
    ELSE <<start>> \o Range(start + step, stop, step)

Min(a, b) == IF a <= b THEN a ELSE b

\* split_audio gone wrong: the last window is not cut at the end of the audio
SplitWindowsUnclamped(audio_length_ms, max_segment_length_ms) ==
    LET starts == Range(0, audio_length_ms, max_segment_length_ms)
    IN  [k \in 1..Len(starts) |-> <<starts[k], starts[k] + max_segment_length_ms>>]

\* the first loop of split_audio: the windows audio[start_ms:end_ms]
SplitWindows(audio_length_ms, max_segment_length_ms) ==
    LET starts == Range(0, audio_length_ms, max_segment_length_ms)
    IN  [k \in 1..Len(starts) |->
            <<starts[k], Min(audio_length_ms, starts[k] + max_segment_length_ms)>>]

\* the path split_audio exports segment number k (1-based) to
SegmentPath(file_path, k) ==
    LET dot         == RIndex(file_path, ".")
        file_prefix == SubSeq(file_path, 1, dot - 1)
        format      == SubSeq(file_path, dot + 1, Len(file_path))
    IN  file_prefix \o <<"_">> \o IntToStr(k) \o <<".">> \o format

\* split_audio gone wrong: a source exactly as long as the cap is cut and
\* exported again
split_audioCutsAtCap(file_path, audio_length_ms, max_segment_length_ms) ==
    IF audio_length_ms < max_segment_length_ms
    THEN [raised |-> FALSE, length |-> audio_length_ms,
          files |-> <<file_path>>, windows |-> <<>>]
    ELSE LET segments == SplitWindows(audio_length_ms, max_segment_length_ms)
         IN  [raised |-> FALSE, length |-> audio_length_ms,
              files |-> [k \in 1..Len(segments) |-> SegmentPath(file_path, k)],
              windows |-> segments]

\* split_audio on an audio file of the given length, every export succeeding:
\* the returned length and paths, and the window written to each path
split_audio(file_path, audio_length_ms, max_segment_length_ms) ==
    IF audio_length_ms <= max_segment_length_ms
    THEN [raised |-> FALSE, length |-> audio_length_ms,
          files |-> <<file_path>>, windows |-> <<>>]
    ELSE IF RIndex(file_path, ".") = 0
    THEN [raised |-> TRUE, length |-> 0, files |-> <<>>, windows |-> <<>>]
    ELSE LET segments == SplitWindows(audio_length_ms, max_segment_length_ms)
         IN  [raised |-> FALSE, length |-> audio_length_ms,
              files |-> [k \in 1..Len(segments) |-> SegmentPath(file_path, k)],
              windows |-> segments]

\* the audio paths split_audio is tried on, as (stem, extension) pairs
SplitStems ==
    { <<"/", "w", "/", "i", "n", "/", "a">>,
      <<"t", "m", "p", "/", "a">>,
      <<"/", "w", "/", "v", ".", "1", "/", "b">> }

SplitExts == { <<"m", "p", "3">>, <<"w", "a", "v">> }

NoArg == [stem |-> <<>>, ext |-> <<>>, D |-> 0, C |-> 0]

NoRet == [raised |-> FALSE, length |-> 0, files |-> <<>>, windows |-> <<>>]

\* the files a call of split_audio exports: one per window
Exported(r) == {AbsPath(r.files[k]) : k \in 1..Len(r.windows)}

\* one call of split_audio on its own, every export succeeding
Split ==
    /\ ret = NoRet
    /\ ret' = split_audio(arg.stem \o <<".">> \o arg.ext, arg.D, arg.C)
    /\ fs' = fs \cup Exported(ret')
    /\ created' = [created EXCEPT ![1] = @ \cup Exported(ret')]
    /\ UNCHANGED <<srv, arg, input, output, pc, reply, faults, temp_files, files,
                   silk_files, i, log, raised, deleted, conv, rmFailed, uuids,
                   video_info>>

\* ------------------------------------------------------------------ delivery: data

\* the concurrent delivery calls; call c sends to receiver c
Calls == {1, 2}

TextTypes  == {"TEXT", "ERROR", "INFO"}
ImageTypes == {"IMAGE_URL", "IMAGE"}

\* the cap send_voice passes to split_audio
SegCapMs == 60 * 1000

\* the lengths of the audio sources, in milliseconds
Durations == {30000 * u : u \in 1..MaxAudioUnits}

Mp3A    == <<"/", "w", "/", "i", "n", "/", "a", ".", "m", "p", "3">>
Mp3Tmp  == <<"t", "m", "p", "/", "a", ".", "m", "p", "3">>
WavA    == <<"/", "w", "/", "i", "n", "/", "a", ".", "w", "a", "v">>

\* the audio files a voice reply may name
Sources == {Mp3A, Mp3Tmp, WavA}

\* None, and the empty string: both are false in Python and name no file
None == <<>>

\* TmpDir().path(): the temp directory of the pipeline, relative to the
\* working directory
TmpDirPath == <<"t", "m", "p", "/">>

\* conf().get("gewechat_callback_url")
CallbackUrl == <<"h", "/", "c", "b">>

FileQuery == <<"?", "f", "i", "l", "e", "=">>

\* the first bytes an image may start with
GIF87a == <<"G", "I", "F", "8", "7", "a">>
GIF89a == <<"G", "I", "F", "8", "9", "a">>
PNGsig == <<"P", "N", "G">>
Headers == {GIF87a, GIF89a, PNGsig, <<"G", "I", "F">>, <<>>}

\* what the environment can answer to a provider request
ProviderOutcomes == {"ok", "non200", "transport"}

\* post_json: returns the result when ret is 200, raises RuntimeError on a
\* transport exception and on any other ret
PostJsonRaises(o) == o # "ok"

\* the outcomes the environment may choose: all of them, or only the
\* fault-free ones when faults are off
Out(all, good) == IF faults > 0 THEN all ELSE good

\* an injected fault is taken from the budget
Spend(fault) == faults' = IF fault THEN faults - 1 ELSE faults

\* a provider call or a pacing delay, as logged
Ev(op, a, b, d, ok) == [op |-> op, a |-> a, b |-> b, d |-> d, ok |-> ok]

Sleep == Ev("sleep", <<>>, <<>>, 0, TRUE)

\* str(uuid.uuid4()): a name never drawn before
Uuid(n) == <<"u">> \o IntToStr(n)

\* the replies a call may be given
Replies ==
    [type : TextTypes, content : {<<"h", "i">>}, isstr : {TRUE},
     dur : {0}, data : {<<>>}, msg : {"none", "group", "direct"}]
    \cup
    [type : {"APP"}, content : {<<>>, <<" ">>, <<"<", "x", ">">>},
     isstr : BOOLEAN, dur : {0}, data : {<<>>}, msg : {"none"}]
    \cup
    [type : {"VOICE"}, content : Sources \cup {<<>>}, isstr : {TRUE},
     dur : Durations, data : {<<>>}, msg : {"none"}]
    \cup
    [type : {"IMAGE_URL"},
     content : {<<"x", ".", "p", "n", "g">>, <<"x", ".", "w", "e", "b", "p">>},
     isstr : {TRUE}, dur : {0}, data : Headers, msg : {"none"}]
    \cup
    [type : {"IMAGE"}, content : {<<>>}, isstr : {FALSE},
     dur : {0}, data : Headers, msg : {"none"}]
    \cup
    [type : {"VIDEO_URL"}, content : {<<"x", ".", "m", "p", "4">>},
     isstr : {TRUE}, dur : {0, 7}, data : {<<>>}, msg : {"none"}]

NoReply ==
    [type |-> "NONE", content |-> <<>>, isstr |-> TRUE, dur |-> 0,
     data |-> <<>>, msg |-> "none"]

\* ------------------------------------------------------------------ delivery: helpers

\* _delete_temp_file gone wrong: every file of the same name goes, whatever
\* its directory
DeleteTempFileByName(files_now, file_path, rmok) ==
    IF file_path # None /\ AbsPath(file_path) \in files_now /\ rmok
    THEN {f \in files_now : Basename(f) # Basename(file_path)}
    ELSE files_now

\* the effect of _delete_temp_file(file_path) on the files, the removal
\* succeeding (rmok) or raising
DeleteTempFile(files_now, file_path, rmok) ==
    IF file_path # None /\ AbsPath(file_path) \in files_now /\ rmok
    THEN files_now \ {AbsPath(file_path)}
    ELSE files_now

\* os.path.splitext(p)[0]
SplitExtRoot(p) ==
    LET dot == RIndex(p, ".")
        sl  == RIndex(p, "/")
    IN  IF dot > sl + 1 THEN SubSeq(p, 1, dot - 1) ELSE p

\* the intermediate PCM file of mp3_to_silk
PcmPath(mp3_path) == SplitExtRoot(mp3_path) \o <<".", "p", "c", "m">>

\* the silk file send_voice names for segment idx
SilkPath(fcontent, idx) ==
    PathJoin(TmpDirPath,
             Basename(fcontent) \o <<"_">> \o IntToStr(idx) \o <<".", "s", "i", "l", "k">>)

\* the URL the provider fetches a file from
MediaUrl(path) == CallbackUrl \o FileQuery \o path

\* what the environment decides in one mp3_to_silk call: how far the
\* conversion gets, the duration the encoder reports, and whether removing
\* the PCM file works
AllConvEnvs(seg_len) ==
    [kind : {"decode_error", "pcm_error", "pcm_partial"}, dur : {0}, rmok : {TRUE}]
        \cup [kind : {"encode_error", "encode_partial"}, dur : {0}, rmok : BOOLEAN]
        \cup [kind : {"encoded"}, dur : {0, seg_len, seg_len + 20}, rmok : BOOLEAN]

\* the same within the fault budget of a delivery
ConvEnvs(seg_len) ==
    Out(AllConvEnvs(seg_len), [kind : {"encoded"}, dur : {seg_len}, rmok : {TRUE}])

\* mp3_to_silk(mp3_path, silk_path) under environment e: the value returned,
\* the files it wrote, the files it removed, and whether a removal failed
mp3_to_silk(mp3_path, silk_path, e) ==
    LET pcm_path == PcmPath(mp3_path)
        pcm_made == e.kind \notin {"decode_error", "pcm_error"}
        in_try   == e.kind \in {"encode_error", "encode_partial", "encoded"}
        silk_made == e.kind \in {"encode_partial", "encoded"}
    IN  [ret     |-> IF e.kind = "encoded" /\ e.dur > 0 THEN e.dur ELSE 0,
         wrote   |-> (IF pcm_made THEN {AbsPath(pcm_path)} ELSE {})
                        \cup (IF silk_made THEN {AbsPath(silk_path)} ELSE {}),
         removed |-> IF in_try /\ e.rmok THEN {AbsPath(pcm_path)} ELSE {},
         rmfail  |-> in_try /\ ~e.rmok]

\* _detect_image_type gone wrong: the first three bytes decide
DetectImageTypeShortSignature(header) ==
    IF header = None THEN <<".", "p", "n", "g">>
    ELSE IF StartsWith(header, <<"G", "I", "F">>) THEN <<".", "g", "i", "f">>
    ELSE <<".", "p", "n", "g">>

\* _detect_image_type given the header bytes it reads (of the file, or of the
\* data); absent input gives .png
DetectImageType(header) ==
    IF header = None THEN <<".", "p", "n", "g">>
    ELSE IF StartsWith(header, GIF87a) \/ StartsWith(header, GIF89a)
         THEN <<".", "g", "i", "f">>
    ELSE <<".", "p", "n", "g">>

\* str.strip() leaves nothing
IsBlank(s) == \A k \in 1..Len(s) : s[k] \in {" ", "\t", "\n"}

\* where a call goes once its body is left: the finally block, when there is
\* something to iterate over
ToFinally(tf) == IF tf = <<>> THEN "done" ELSE "finally"

\* ------------------------------------------------------------------ delivery: send

\* gewechat_message.actual_user_id: the sender of the originating message
ActualUserId == <<"u", "1">>

\* the mention gone wrong: attached whenever there is an originating message
AtsAnyMessage(msg) == IF msg # "none" THEN ActualUserId ELSE <<>>

\* ats: the sender's id when the context holds a message and that message
\* is a group message, the empty string otherwise
Ats(msg) == IF msg # "none" /\ msg = "group" THEN ActualUserId ELSE <<>>

\* send, TEXT / ERROR / INFO branch: one post_text, outside any try block
SendText(c) ==
    /\ pc[c] = "start"
    /\ reply[c].type \in TextTypes
    /\ \E o \in Out(ProviderOutcomes, {"ok"}) :
           LET ats == Ats(reply[c].msg)
           IN  /\ log' = [log EXCEPT ![c] =
                            Append(@, Ev("post_text", reply[c].content, ats, 0,
                                         ~PostJsonRaises(o)))]
               /\ raised' = [raised EXCEPT ![c] = PostJsonRaises(o)]
               /\ Spend(o # "ok")
    /\ pc' = [pc EXCEPT ![c] = "done"]
    /\ UNCHANGED video_info
    /\ UNCHANGED <<fs, srv, pure, reply, temp_files, files, silk_files, i,
                   created, deleted, conv, rmFailed, uuids>>

\* the content checks gone wrong: only the empty string is refused
AppValidNonEmpty(r) == r.isstr /\ r.content # <<>>

\* the content checks of the APP branch: a str, and something left by strip()
AppValid(r) == r.isstr /\ ~IsBlank(r.content)

\* send, APP branch: the content checks, then one post_app_msg inside try
SendApp(c) ==
    /\ pc[c] = "start"
    /\ reply[c].type = "APP"
    /\ IF ~AppValid(reply[c])
       THEN UNCHANGED <<log, faults>>
       ELSE \E o \in Out(ProviderOutcomes, {"ok"}) :
                /\ log' = [log EXCEPT ![c] =
                             Append(@, Ev("post_app_msg", reply[c].content, <<>>, 0,
                                          ~PostJsonRaises(o)))]
                /\ Spend(o # "ok")
    /\ pc' = [pc EXCEPT ![c] = "done"]
    /\ UNCHANGED video_info
    /\ UNCHANGED <<fs, srv, pure, reply, temp_files, files, silk_files, i,
                   raised, created, deleted, conv, rmFailed, uuids>>

\* ------------------------------------------------------------------ delivery: send_voice

\* the checks gone wrong: any existing file is taken, whatever its name
VoiceChecksAnyName(content) ==
    IF content = <<>> \/ ~Exists(content) THEN "done" ELSE "split"

\* the checks of send_voice on the source: it must be named, exist and end
\* in .mp3, or send_voice returns
VoiceChecks(content) ==
    IF content = <<>> \/ ~Exists(content) THEN "done"
    ELSE IF ~EndsWith(content, <<".", "m", "p", "3">>) THEN "done"
    ELSE "split"

\* send_voice, the checks of the source: it must exist and end in .mp3
SendVoice(c) ==
    /\ pc[c] = "start"
    /\ reply[c].type = "VOICE"
    /\ pc' = [pc EXCEPT ![c] = VoiceChecks(reply[c].content)]
    /\ UNCHANGED video_info
    /\ UNCHANGED <<fs, srv, pure, reply, faults, temp_files, files, silk_files, i,
                   log, raised, created, deleted, conv, rmFailed, uuids>>

\* split_audio up to its first export: the source is decoded and measured; a
\* source no longer than the cap is returned as the only segment
SplitLoad(c) ==
    /\ pc[c] = "split"
    /\ LET content == reply[c].content
           loaded  == IF AbsPath(content) \in fs
                      THEN Out({TRUE, FALSE}, {TRUE}) ELSE {FALSE}
       IN  \E ok \in loaded :
             /\ Spend(~ok /\ AbsPath(content) \in fs)
             /\ IF ~ok
                THEN /\ pc' = [pc EXCEPT ![c] = ToFinally(temp_files[c])]
                     /\ UNCHANGED <<files, temp_files, i>>
                ELSE IF reply[c].dur <= SegCapMs
                THEN /\ files' = [files EXCEPT ![c] =
                                    split_audio(content, reply[c].dur, SegCapMs).files]
                     /\ temp_files' = [temp_files EXCEPT ![c] = @ \o files'[c]]
                     /\ pc' = [pc EXCEPT ![c] = "durations"]
                     /\ UNCHANGED i
                ELSE /\ pc' = [pc EXCEPT ![c] = "export"]
                     /\ i' = [i EXCEPT ![c] = 1]
                     /\ UNCHANGED <<files, temp_files>>
    /\ UNCHANGED video_info
    /\ UNCHANGED <<fs, srv, pure, reply, silk_files, log, raised,
                   created, deleted, conv, rmFailed, uuids>>

\* split_audio, one turn of its export loop: segment i[c] is written to its
\* path; a failed export raises out of split_audio and of the body of
\* send_voice, the paths exported so far known to nobody
SplitExport(c) ==
    /\ pc[c] = "export"
    /\ LET r    == split_audio(reply[c].content, reply[c].dur, SegCapMs)
           path == r.files[i[c]]
       IN  \E o \in Out({"ok", "error", "partial"}, {"ok"}) :
               /\ Spend(o # "ok")
               /\ fs' = IF o = "error" THEN fs ELSE fs \cup {AbsPath(path)}
               /\ created' = [created EXCEPT ![c] =
                                IF o = "error" THEN @ ELSE @ \cup {AbsPath(path)}]
               /\ IF o # "ok"
                  THEN /\ pc' = [pc EXCEPT ![c] = ToFinally(temp_files[c])]
                       /\ UNCHANGED <<files, temp_files, i>>
                  ELSE IF i[c] < Len(r.files)
                  THEN /\ files' = [files EXCEPT ![c] = Append(@, path)]
                       /\ i' = [i EXCEPT ![c] = @ + 1]
                       /\ UNCHANGED <<pc, temp_files>>
                  ELSE /\ files' = [files EXCEPT ![c] = Append(@, path)]
                       /\ temp_files' = [temp_files EXCEPT ![c] = @ \o files'[c]]
                       /\ pc' = [pc EXCEPT ![c] = "durations"]
                       /\ UNCHANGED i
    /\ UNCHANGED video_info
    /\ UNCHANGED <<srv, pure, reply, silk_files, log, raised,
                   deleted, conv, rmFailed, uuids>>

\* get_segment_durations: every segment file is decoded again; the result is
\* not used afterwards
SegmentDurations(c) ==
    /\ pc[c] = "durations"
    /\ LET readable == \A k \in 1..Len(files[c]) : AbsPath(files[c][k]) \in fs
           decoded  == IF readable THEN Out({TRUE, FALSE}, {TRUE}) ELSE {FALSE}
       IN  \E ok \in decoded :
               /\ Spend(~ok /\ readable)
               /\ pc' = [pc EXCEPT ![c] = IF ok THEN "convert" ELSE "finally"]
               /\ i' = [i EXCEPT ![c] = 1]
    /\ UNCHANGED video_info
    /\ UNCHANGED <<fs, srv, pure, reply, temp_files, files, silk_files,
                   log, raised, created, deleted, conv, rmFailed, uuids>>

\* the length of segment idx of call c
SegLen(c, idx) ==
    LET r == split_audio(reply[c].content, reply[c].dur, SegCapMs)
    IN  IF r.windows = <<>> THEN r.length
        ELSE r.windows[idx][2] - r.windows[idx][1]

\* the conversion loop gone wrong: a failed segment is skipped once some
\* segment has been converted
AfterConvertSkipsFailed(c, converted) ==
    IF ~converted /\ silk_files[c] = <<>> THEN "finally"
    ELSE IF i[c] < Len(files[c]) THEN "convert" ELSE "post"

\* where the conversion loop goes after segment i[c]
AfterConvert(c, converted) ==
    IF ~converted THEN "finally"
    ELSE IF i[c] < Len(files[c]) THEN "convert" ELSE "post"

\* one turn of the conversion loop: the silk path of segment i[c] joins the
\* cleanup list, mp3_to_silk runs, and a failed conversion ends the delivery
Convert(c) ==
    /\ pc[c] = "convert"
    /\ LET fcontent  == files[c][i[c]]
           silk_path == SilkPath(fcontent, i[c])
           envs      == IF AbsPath(fcontent) \in fs
                        THEN ConvEnvs(SegLen(c, i[c]))
                        ELSE {[kind |-> "decode_error", dur |-> 0, rmok |-> TRUE]}
       IN  \E e \in envs :
               LET r         == mp3_to_silk(fcontent, silk_path, e)
                   converted == r.ret > 0 /\ AbsPath(silk_path) \in fs'
               IN  /\ Spend(AbsPath(fcontent) \in fs /\ ~(r.ret > 0 /\ e.rmok))
                   /\ temp_files' = [temp_files EXCEPT ![c] = Append(@, silk_path)]
                   /\ fs' = (fs \cup r.wrote) \ r.removed
                   /\ created' = [created EXCEPT ![c] = @ \cup r.wrote]
                   /\ deleted' = [deleted EXCEPT ![c] = @ \cup r.removed]
                   /\ rmFailed' = [rmFailed EXCEPT ![c] = @ \/ r.rmfail]
                   /\ conv' = [conv EXCEPT ![c] =
                                 Append(@, [path |-> silk_path, ret |-> r.ret,
                                            ok |-> converted])]
                   /\ silk_files' = [silk_files EXCEPT ![c] =
                                       IF converted
                                       THEN Append(@, <<MediaUrl(silk_path), r.ret>>)
                                       ELSE @]
                   /\ pc' = [pc EXCEPT ![c] = AfterConvert(c, converted)]
                   /\ i' = [i EXCEPT ![c] =
                              IF AfterConvert(c, converted) = "convert"
                              THEN @ + 1 ELSE 1]
    /\ UNCHANGED video_info
    /\ UNCHANGED <<srv, pure, reply, files, log, raised, uuids>>

\* the sending loop gone wrong: it posts the silk_url and duration left over
\* from the conversion loop
PostVoiceEventsStale(c, ok) ==
    <<Ev("post_voice", silk_files[c][Len(silk_files[c])][1], <<>>,
         silk_files[c][Len(silk_files[c])][2], ok)>>
        \o (IF ok /\ i[c] < Len(silk_files[c]) THEN <<Sleep>> ELSE <<>>)

\* what one turn of the sending loop logs: the post_voice call, and the
\* pacing delay that follows it inside the try block
PostVoiceEvents(c, ok) ==
    <<Ev("post_voice", silk_files[c][i[c]][1], <<>>, silk_files[c][i[c]][2], ok)>>
        \o (IF ok /\ i[c] < Len(silk_files[c]) THEN <<Sleep>> ELSE <<>>)

\* the sending loop gone wrong: a failed post_voice ends the loop
AfterPostAbandons(c, ok) ==
    IF ok /\ i[c] < Len(silk_files[c]) THEN "post" ELSE "finally"

\* where the sending loop goes after the post_voice of segment i[c]
AfterPost(c, ok) == IF i[c] < Len(silk_files[c]) THEN "post" ELSE "finally"

\* one turn of the sending loop
PostVoice(c) ==
    /\ pc[c] = "post"
    /\ \E o \in Out(ProviderOutcomes, {"ok"}) :
           LET ok == ~PostJsonRaises(o)
           IN  /\ Spend(~ok)
               /\ log' = [log EXCEPT ![c] = @ \o PostVoiceEvents(c, ok)]
               /\ pc' = [pc EXCEPT ![c] = AfterPost(c, ok)]
               /\ i' = [i EXCEPT ![c] = IF AfterPost(c, ok) = "post" THEN @ + 1 ELSE 1]
    /\ UNCHANGED video_info
    /\ UNCHANGED <<fs, srv, pure, reply, temp_files, files, silk_files,
                   raised, created, deleted, conv, rmFailed, uuids>>

\* one turn of a finally block: _delete_temp_file on entry i[c] of the
\* cleanup list (send_voice), on the temp image (send_image) or on the poster
\* (send_video)
Finally(c) ==
    /\ pc[c] = "finally"
    /\ LET file_path == temp_files[c][i[c]]
           there     == file_path # None /\ AbsPath(file_path) \in fs
       IN  \E rmok \in IF there THEN Out({TRUE, FALSE}, {TRUE}) ELSE {TRUE} :
               /\ Spend(~rmok)
               /\ fs' = DeleteTempFile(fs, file_path, rmok)
               /\ deleted' = [deleted EXCEPT ![c] = @ \cup (fs \ fs')]
               /\ rmFailed' = [rmFailed EXCEPT ![c] = @ \/ ~rmok]
    /\ IF i[c] < Len(temp_files[c])
       THEN /\ i' = [i EXCEPT ![c] = @ + 1]
            /\ UNCHANGED pc
       ELSE /\ pc' = [pc EXCEPT ![c] = "done"]
            /\ UNCHANGED i
    /\ UNCHANGED video_info
    /\ UNCHANGED <<srv, pure, reply, temp_files, files, silk_files, log,
                   raised, created, conv, uuids>>

\* ------------------------------------------------------------------ delivery: send_image

\* the temp file _download_image_from_url and _save_image_from_io write to
ImagePath(c, n) ==
    LET webp      == Contains(reply[c].content, <<".", "w", "e", "b", "p">>)
        extension == IF reply[c].type = "IMAGE_URL" /\ webp
                     THEN <<".", "p", "n", "g">>
                     ELSE DetectImageType(reply[c].data)
    IN  PathJoin(TmpDirPath, <<"i", "m", "g", "_">> \o Uuid(n) \o extension)

\* the first bytes of the temp image as written: the converted PNG for a
\* WebP source, the data as they came otherwise
ImageHeader(c) ==
    IF reply[c].type = "IMAGE_URL"
       /\ Contains(reply[c].content, <<".", "w", "e", "b", "p">>)
    THEN PNGsig ELSE reply[c].data

\* send_image up to the provider call: _download_image_from_url or
\* _save_image_from_io fetches the bytes and writes the temp file; both catch
\* every exception and return None, also when the write failed part-way
FetchImage(c) ==
    /\ pc[c] = "start"
    /\ reply[c].type \in ImageTypes
    /\ \E o \in Out({"ok", "fetch_error", "open_error", "write_error"}, {"ok"}) :
           LET path == ImagePath(c, uuids)
               made == o \in {"ok", "write_error"}
           IN  /\ Spend(o # "ok")
               /\ uuids' = IF o = "fetch_error" THEN uuids ELSE uuids + 1
               /\ fs' = IF made THEN fs \cup {AbsPath(path)} ELSE fs
               /\ created' = [created EXCEPT ![c] =
                                IF made THEN @ \cup {AbsPath(path)} ELSE @]
               /\ temp_files' = [temp_files EXCEPT ![c] =
                                   <<IF o = "ok" THEN path ELSE None>>]
               /\ pc' = [pc EXCEPT ![c] = IF o = "ok" THEN "post_image" ELSE "finally"]
    /\ i' = [i EXCEPT ![c] = 1]
    /\ UNCHANGED video_info
    /\ UNCHANGED <<srv, pure, reply, files, silk_files, log, raised,
                   deleted, conv, rmFailed>>

\* send_image gone wrong: a GIF is sent as an image like any other
ImageEventNeverFile(extension, img_url, temp_file_path, ok) ==
    Ev("post_image", img_url, <<>>, 0, ok)

\* the provider call of send_image: post_file under the base name of the
\* temp file for a GIF, post_image otherwise
ImageEvent(extension, img_url, temp_file_path, ok) ==
    IF extension = <<".", "g", "i", "f">>
    THEN Ev("post_file", img_url, Basename(temp_file_path), 0, ok)
    ELSE Ev("post_image", img_url, <<>>, 0, ok)

\* send_image after the helper returned a path: the check that the temp
\* file is there, the type detected from the file, and the provider call
PostImage(c) ==
    /\ pc[c] = "post_image"
    /\ LET temp_file_path == temp_files[c][1]
           readable  == AbsPath(temp_file_path) \in fs
           extension == DetectImageType(IF readable THEN ImageHeader(c) ELSE None)
           img_url   == MediaUrl(temp_file_path)
       IN  IF ~Exists(temp_file_path)
           THEN UNCHANGED <<log, faults>>
           ELSE \E o \in Out(ProviderOutcomes, {"ok"}) :
                    /\ Spend(o # "ok")
                    /\ log' = [log EXCEPT ![c] =
                                 Append(@, ImageEvent(extension, img_url,
                                                      temp_file_path,
                                                      ~PostJsonRaises(o)))]
    /\ pc' = [pc EXCEPT ![c] = "finally"]
    /\ UNCHANGED video_info
    /\ UNCHANGED <<fs, srv, pure, reply, temp_files, files, silk_files, i,
                   raised, created, deleted, conv, rmFailed, uuids>>

\* ------------------------------------------------------------------ delivery: send_video

\* the poster path send_video builds: <cwd>/tmp/<uuid>.jpg
PosterPath(n) ==
    PathJoin(PathJoin(Cwd, <<"t", "m", "p">>), Uuid(n) \o <<".", "j", "p", "g">>)

\* get_video_info under what the environment lets the capture do: the frame
\* and duration are returned ("frame") when the source opens, the frame rate
\* divides the frame count and the first frame is read; (None, None) otherwise
get_video_info(o) ==
    IF o = "cannot_open" THEN "not_opened"
    ELSE IF o = "fps_zero" THEN "metadata_raised"
    ELSE IF o = "no_frame" THEN "no_frame"
    ELSE "frame"

\* the check of send_video gone wrong: an opened source is enough
HasVideoInfoOpened(info) == info # "not_opened"

\* send_video goes on when neither first_frame nor duration is None
HasVideoInfo(info) == info = "frame"

\* send_video up to the poster: get_video_info opens the source, divides the
\* frame count by the frame rate and decodes the first frame (every failure
\* gives (None, None)); then the temp directory is made and the poster named
VideoInfo(c) ==
    /\ pc[c] = "start"
    /\ reply[c].type = "VIDEO_URL"
    /\ \E o \in Out({"ok", "cannot_open", "fps_zero", "no_frame", "makedirs_error"},
                    {"ok"}) :
           /\ Spend(o # "ok")
           /\ video_info' = [video_info EXCEPT ![c] = get_video_info(o)]
           /\ IF HasVideoInfo(get_video_info(o)) /\ o # "makedirs_error"
              THEN /\ temp_files' = [temp_files EXCEPT ![c] = <<PosterPath(uuids)>>]
                   /\ uuids' = uuids + 1
                   /\ pc' = [pc EXCEPT ![c] = "poster"]
              ELSE /\ pc' = [pc EXCEPT ![c] = "done"]
                   /\ UNCHANGED <<temp_files, uuids>>
    /\ i' = [i EXCEPT ![c] = 1]
    /\ UNCHANGED <<fs, srv, pure, reply, files, silk_files, log, raised,
                   created, deleted, conv, rmFailed>>

\* send_video, cv2.imwrite of the first frame: it writes the poster, returns
\* False without writing (the return value is not looked at), or raises
VideoPoster(c) ==
    /\ pc[c] = "poster"
    /\ \E o \in Out({"ok", "false", "error", "partial"}, {"ok"}) :
           LET img_path == temp_files[c][1]
               made     == o \in {"ok", "partial"}
           IN  /\ Spend(o # "ok")
               /\ fs' = IF made THEN fs \cup {AbsPath(img_path)} ELSE fs
               /\ created' = [created EXCEPT ![c] =
                                IF made THEN @ \cup {AbsPath(img_path)} ELSE @]
               /\ pc' = [pc EXCEPT ![c] =
                           IF o \in {"ok", "false"} THEN "post_video" ELSE "finally"]
    /\ UNCHANGED video_info
    /\ UNCHANGED <<srv, pure, reply, temp_files, files, silk_files, i, log,
                   raised, deleted, conv, rmFailed, uuids>>

\* send_video, the provider call, with the poster URL built from the path
\* relative to the working directory
PostVideo(c) ==
    /\ pc[c] = "post_video"
    /\ LET img_url == MediaUrl(RelPathFromCwd(temp_files[c][1]))
       IN  \E o \in Out(ProviderOutcomes, {"ok"}) :
               /\ Spend(o # "ok")
               /\ log' = [log EXCEPT ![c] =
                            Append(@, Ev("post_video", reply[c].content, img_url,
                                         reply[c].dur, ~PostJsonRaises(o)))]
    /\ pc' = [pc EXCEPT ![c] = "finally"]
    /\ UNCHANGED video_info
    /\ UNCHANGED <<fs, srv, pure, reply, temp_files, files, silk_files, i,
                   raised, created, deleted, conv, rmFailed, uuids>>

\* ------------------------------------------------------------------ helpers called on their own

NoInput == [fn |-> "none"]

NoOutput == [fn |-> "none"]

\* the sample rates the silk decoder supports, as listed
sil_supports == <<8000, 12000, 16000, 24000, 32000, 44100, 48000>>

\* the value mindiff starts from in find_closest_sil_supports
MindiffInit == 9999999

\* abs()
Abs(x) == IF x < 0 THEN 0 - x ELSE x

RECURSIVE ClosestLoop(_, _, _, _)
\* the loop of find_closest_sil_supports from candidate number k on
ClosestLoop(k, sample_rate, closest, mindiff) ==
    IF k > Len(sil_supports) THEN closest
    ELSE LET rate == sil_supports[k]
             diff == Abs(rate - sample_rate)
         IN  IF diff < mindiff
             THEN ClosestLoop(k + 1, sample_rate, rate, diff)
             ELSE ClosestLoop(k + 1, sample_rate, closest, mindiff)

\* find_closest_sil_supports
find_closest_sil_supports(sample_rate) ==
    IF \E k \in 1..Len(sil_supports) : sil_supports[k] = sample_rate
    THEN sample_rate
    ELSE ClosestLoop(1, sample_rate, 0, MindiffInit)

\* the sample rates tried: the supported ones, the midpoints between
\* neighbours, zero, the first rate farther than MindiffInit from every
\* supported one, and the rates up to MaxRateOff around each of these
RatePoints ==
    {sil_supports[k] : k \in 1..Len(sil_supports)}
        \cup {(sil_supports[k] + sil_supports[k + 1]) \div 2 :
                  k \in 1..(Len(sil_supports) - 1)}
        \cup {0, sil_supports[Len(sil_supports)] + MindiffInit}

Rates ==
    {r \in {q + d : q \in RatePoints, d \in (0 - MaxRateOff)..MaxRateOff} : r >= 0}

\* the rate and channel count any_to_wav asks for
WavFrameRate == 8000
WavChannels == 1

\* the rate sil_to_wav decodes at by default
SilToWavRate == 24000

\* AudioSegment.set_frame_rate and set_channels: the segment is left as it
\* is, a new segment is returned
SetFrameRate(audio, frame_rate) == [audio EXCEPT !.frame_rate = frame_rate]
SetChannels(audio, channels) == [audio EXCEPT !.channels = channels]

\* any_to_wav(any_path, wav_path) on a source decoding to `audio`: how the
\* WAV is made, and the sample rate and channel count it is written with
any_to_wav(any_path, audio) ==
    IF EndsWith(any_path, <<".", "w", "a", "v">>)
    THEN [via |-> "copy", frame_rate |-> audio.frame_rate,
          channels |-> audio.channels]
    ELSE IF \/ EndsWith(any_path, <<".", "s", "i", "l">>)
            \/ EndsWith(any_path, <<".", "s", "i", "l", "k">>)
            \/ EndsWith(any_path, <<".", "s", "l", "k">>)
    THEN [via |-> "sil_to_wav", frame_rate |-> SilToWavRate, channels |-> 1]
    ELSE LET resampled == SetFrameRate(audio, WavFrameRate)
             mono      == SetChannels(audio, WavChannels)
             \* neither result is bound to a name in the code: the segment
             \* exported is the one from_file returned
             exported  == audio
         IN  [via |-> "export", frame_rate |-> exported.frame_rate,
              channels |-> exported.channels]

\* the sources any_to_wav is tried on
AudioPaths ==
    { <<"a", ".", "m", "p", "3">>, <<"a", ".", "a", "m", "r">>,
      <<"a", ".", "w", "a", "v">>, <<"a", ".", "s", "i", "l", "k">> }

WavOut == <<"t", "m", "p", "/", "a", ".", "w", "a", "v">>

\* bytes[:6] and f.read(6)
FirstSix(bytes) == SubSeq(bytes, 1, Min(6, Len(bytes)))

\* _detect_image_type(file_path, image_data): the file is looked at first
\* (its bytes, when open and read succeed), the data otherwise; every
\* exception gives .png
detect_image_type(file_path, image_data, file_bytes, readable) ==
    IF file_path # None
    THEN IF readable THEN DetectImageType(FirstSix(file_bytes))
         ELSE <<".", "p", "n", "g">>
    ELSE IF image_data # None THEN DetectImageType(FirstSix(image_data))
    ELSE <<".", "p", "n", "g">>

\* the byte buffers tried: every prefix of the two GIF signatures, the
\* signatures followed by more bytes, the signatures with one byte changed,
\* and a PNG
ImageBufs ==
    {SubSeq(g, 1, k) : g \in {GIF87a, GIF89a}, k \in 0..6}
        \cup {g \o <<"x">> : g \in {GIF87a, GIF89a}}
        \cup {[g EXCEPT ![k] = "x"] : g \in {GIF87a, GIF89a}, k \in 1..6}
        \cup {PNGsig, PNGsig \o GIF89a}

ImgFile == <<"t", "m", "p", "/", "i">>

\* the calls of the helpers tried
RateInputs == [fn : {"find_closest"}, sample_rate : Rates]

WavInputs ==
    [fn : {"any_to_wav"}, any_path : AudioPaths,
     frame_rate : {sil_supports[k] : k \in 1..Len(sil_supports)},
     channels : {1, 2}]

DetectInputs ==
    [fn : {"detect"}, file_path : {None}, image_data : ImageBufs,
     file_bytes : {<<>>}, readable : {TRUE}]
    \cup
    [fn : {"detect"}, file_path : {ImgFile}, image_data : {None, GIF89a},
     file_bytes : ImageBufs, readable : BOOLEAN]

\* what the file given to mp3_to_silk holds: an MP3 container, another
\* container the decoder reads, or nothing it can decode
Containers == {"mp3", "wav", "undecodable"}

\* AudioSegment.from_file(mp3_path), no format given: the decoder probes the
\* file and reads every container it knows
Decodes(container) == container # "undecodable"

\* the calls of mp3_to_silk tried: every container under every course of the
\* conversion the container allows
SilkInputs ==
    {x \in [fn : {"mp3_to_silk"}, mp3_path : {Mp3Tmp}, container : Containers,
             e : AllConvEnvs(SegCapMs)] :
        ~Decodes(x.container) => x.e.kind = "decode_error"}

\* one call of mp3_to_silk on its own
Mp3ToSilk ==
    /\ input.fn = "mp3_to_silk"
    /\ output = NoOutput
    /\ LET r == mp3_to_silk(input.mp3_path, SilkPath(input.mp3_path, 1), input.e)
       IN  /\ output' = [fn |-> "mp3_to_silk", raised |-> FALSE, ret |-> r.ret]
           /\ fs' = (fs \cup r.wrote) \ r.removed
    /\ UNCHANGED <<srv, arg, ret, input, calls>>

\* one call of find_closest_sil_supports on its own
FindClosest ==
    /\ input.fn = "find_closest"
    /\ output = NoOutput
    /\ output' = [fn |-> "find_closest",
                  closest |-> find_closest_sil_supports(input.sample_rate)]
    /\ UNCHANGED <<fs, srv, arg, ret, input, calls>>

\* one call of any_to_wav on its own
AnyToWav ==
    /\ input.fn = "any_to_wav"
    /\ output = NoOutput
    /\ LET audio == [frame_rate |-> input.frame_rate, channels |-> input.channels]
           wav   == any_to_wav(input.any_path, audio)
       IN  output' = [fn |-> "any_to_wav", via |-> wav.via,
                      frame_rate |-> wav.frame_rate, channels |-> wav.channels]
    /\ fs' = fs \cup {AbsPath(WavOut)}
    /\ UNCHANGED <<srv, arg, ret, input, calls>>

\* one call of _detect_image_type on its own
DetectType ==
    /\ input.fn = "detect"
    /\ output = NoOutput
    /\ output' = [fn |-> "detect", raised |-> FALSE,
                  extension |-> detect_image_type(input.file_path, input.image_data,
                                                  input.file_bytes, input.readable)]
    /\ UNCHANGED <<fs, srv, arg, ret, input, calls>>

\* ------------------------------------------------------------------ specifications

\* the per-call state before send is entered
Fresh(f) ==
    /\ req = <<>> /\ resp = NoResp
    /\ ret = NoRet
    /\ faults = f
    /\ temp_files = [c \in Calls |-> <<>>]
    /\ files = [c \in Calls |-> <<>>]
    /\ silk_files = [c \in Calls |-> <<>>]
    /\ i = [c \in Calls |-> 1]
    /\ log = [c \in Calls |-> <<>>]
    /\ raised = [c \in Calls |-> FALSE]
    /\ created = [c \in Calls |-> {}]
    /\ deleted = [c \in Calls |-> {}]
    /\ conv = [c \in Calls |-> <<>>]
    /\ rmFailed = [c \in Calls |-> FALSE]
    /\ uuids = 0
    /\ video_info = [c \in Calls |-> "unset"]

\* no helper function has been called on its own
Idle == input = NoInput /\ output = NoOutput

\* one delivery call, any reply, the audio sources all there or all missing,
\* up to MaxFaults faults
Init ==
    /\ Fresh(MaxFaults)
    /\ Idle
    /\ arg = NoArg
    /\ fs \in {{AbsPath(p) : p \in S} : S \in {Sources, {}}}
    /\ \E r \in Replies : reply = [c \in Calls |-> IF c = 1 THEN r ELSE NoReply]
    /\ pc = [c \in Calls |-> IF c = 1 THEN "start" ELSE "off"]

Delivery(c) ==
    \/ SendText(c) \/ SendApp(c)
    \/ SendVoice(c) \/ SplitLoad(c) \/ SplitExport(c) \/ SegmentDurations(c)
    \/ Convert(c) \/ PostVoice(c)
    \/ FetchImage(c) \/ PostImage(c)
    \/ VideoInfo(c) \/ VideoPoster(c) \/ PostVideo(c)
    \/ Finally(c)

Next == \E c \in Calls : Delivery(c)

Spec == Init /\ [][Next]_vars

\* the replies of the concurrent calls: voice replies on existing MP3 sources
\* and image replies
ConcReplies ==
    {r \in Replies :
        \/ r.type = "VOICE" /\ r.content \in {Mp3A, Mp3Tmp}
                            /\ r.dur \in {30000, 30000 * MaxAudioUnits}
        \/ r.type = "IMAGE_URL" /\ r.data = PNGsig}

\* two delivery calls for different receivers running concurrently, the
\* environment failing nothing
InitConc ==
    /\ Fresh(0)
    /\ Idle
    /\ arg = NoArg
    /\ fs = {AbsPath(p) : p \in Sources}
    /\ \E r1 \in ConcReplies, r2 \in ConcReplies :
           /\ r1.content = r2.content => r1.dur = r2.dur
           /\ reply = [c \in Calls |-> IF c = 1 THEN r1 ELSE r2]
    /\ pc = [c \in Calls |-> "start"]

ConcDelivery(c) ==
    \/ SendVoice(c) \/ SplitLoad(c) \/ SplitExport(c) \/ SegmentDurations(c)
    \/ Convert(c) \/ PostVoice(c)
    \/ FetchImage(c) \/ PostImage(c)
    \/ Finally(c)

NextConc == \E c \in Calls : ConcDelivery(c)

SpecConc == InitConc /\ [][NextConc]_vars

\* the file server alone, over every set of served files
InitGet ==
    /\ Fresh(0)
    /\ Idle
    /\ arg = NoArg
    /\ fs \in SUBSET ServedFiles
    /\ reply = [c \in Calls |-> NoReply]
    /\ pc = [c \in Calls |-> "off"]

SpecGet == InitGet /\ [][Get]_vars

\* split_audio alone, over every length, cap and path, the source being the
\* only file there
InitSplit ==
    /\ Fresh(0)
    /\ Idle
    /\ arg \in [stem : SplitStems, ext : SplitExts,
                 D : 0..MaxSplitD, C : 1..MaxSplitC]
    /\ fs = {AbsPath(arg.stem \o <<".">> \o arg.ext)}
    /\ reply = [c \in Calls |-> NoReply]
    /\ pc = [c \in Calls |-> "off"]

SpecSplit == InitSplit /\ [][Split]_vars

\* the helpers alone, each over its inputs
InitHelpers ==
    /\ Fresh(0)
    /\ arg = NoArg
    /\ \/ input \in RateInputs
       \/ input \in WavInputs
       \/ input \in DetectInputs
       \/ input \in SilkInputs
    /\ output = NoOutput
    /\ fs = IF input.fn = "mp3_to_silk" THEN {AbsPath(input.mp3_path)} ELSE {}
    /\ reply = [c \in Calls |-> NoReply]
    /\ pc = [c \in Calls |-> "off"]

NextHelpers == FindClosest \/ AnyToWav \/ DetectType \/ Mp3ToSilk

SpecHelpers == InitHelpers /\ [][NextHelpers]_vars

\* ------------------------------------------------------------------ claims

IsPostVoice(e) == e.op = "post_voice"

\* the post_voice calls of call c, in the order they were made
Posts(c) == SelectSeq(log[c], IsPostVoice)

Returned(c) == pc[c] = "done"

\* C1: send never raises to its caller, whatever the reply type and whatever
\* fails (provider, conversion, file I/O).
C1_SendNeverRaises == \A c \in Calls : ~raised[c]

\* a normalised absolute path lies inside the temp root when its components
\* continue those of the temp root
InsideTmpRoot(p) ==
    LET cs   == SplitSlash(p)
        root == SplitSlash(TmpRoot)
    IN  Len(cs) > Len(root) /\ SubSeq(cs, 1, Len(root)) = root

\* C2: a GET whose `file` parameter resolves to a path that is not inside the
\* temp root <cwd>/tmp is answered forbidden and never with file bytes;
\* stated for the requests that name an existing file, where bytes are at stake.
C2_OutsideTempRootForbidden ==
    LET clean_path == AbsPath(PathJoin(Cwd, req))
    IN  (resp # NoResp /\ req # <<>> /\ clean_path \in fs
                       /\ ~InsideTmpRoot(clean_path))
            => resp.status = "forbidden"

\* C3: once send_voice has returned, on every exit path, none of the files
\* created during the call (segment, silk, PCM) exists any more; stated for
\* the calls in which no removal was itself refused by the system.
C3_VoiceLeavesNoFile ==
    \A c \in Calls :
        (reply[c].type = "VOICE" /\ Returned(c) /\ ~rmFailed[c])
            => created[c] \cap fs = {}

\* C4: once send_image or send_video has returned, on every exit path, the
\* temp image or poster created during the call exists no more; stated for
\* the calls in which no removal was itself refused by the system.
C4_ImageVideoLeaveNoFile ==
    \A c \in Calls :
        (reply[c].type \in ImageTypes \cup {"VIDEO_URL"} /\ Returned(c)
                /\ ~rmFailed[c])
            => created[c] \cap fs = {}

\* C5: within one send_voice call the post_voice calls go in strictly
\* increasing segment order, each segment at most once, and the j-th call
\* carries the silk URL of segment j and the duration mp3_to_silk returned
\* for segment j.
C5_PostsInSegmentOrder ==
    \A c \in Calls :
        /\ Len(Posts(c)) <= Len(files[c])
        /\ Len(Posts(c)) <= Len(conv[c])
        /\ \A j \in 1..Len(Posts(c)) :
               /\ Posts(c)[j].a = MediaUrl(SilkPath(files[c][j], j))
               /\ Posts(c)[j].d = conv[c][j].ret

\* C5 happens: a three-segment voice reply was posted to the end, two of its
\* segments converted with different durations
C5_Witness ==
    \E c \in Calls :
        /\ Returned(c) /\ Len(Posts(c)) = 3
        /\ conv[c][1].ret # conv[c][2].ret

\* C6: when the conversion of some segment fails, no post_voice call is made
\* for any segment of that message.
C6_FailedConversionSendsNothing ==
    \A c \in Calls :
        (\E k \in 1..Len(conv[c]) : ~conv[c][k].ok) => Posts(c) = <<>>

\* C6 happens: the first segment converted, the second did not, and
\* send_voice has returned
C6_Witness ==
    \E c \in Calls :
        /\ Returned(c) /\ Len(conv[c]) = 2
        /\ conv[c][1].ok /\ ~conv[c][2].ok

\* C7 as claimed: after a post_voice call that failed, no further post_voice
\* call is made in that delivery (the later segments are abandoned, the
\* failed one is not retried).
C7_FailedPostAbandons ==
    \A c \in Calls :
        \A a, b \in 1..Len(Posts(c)) : a < b => Posts(c)[a].ok

\* C7 as amended: a failed post_voice call is not retried and does not end
\* the delivery: once every segment is converted, each of the n segments is
\* posted exactly once, in order, whichever of the calls fail.
C7_FailedPostSkipsOnlyItself ==
    \A c \in Calls :
        (reply[c].type = "VOICE" /\ pc[c] \in {"finally", "done"}
                /\ silk_files[c] # <<>> /\ Len(silk_files[c]) = Len(files[c]))
            => /\ Len(Posts(c)) = Len(files[c])
               /\ \A j \in 1..Len(Posts(c)) :
                      Posts(c)[j].a = silk_files[c][j][1]

\* C7 happens: the first of three post_voice calls failed and the other two
\* were made
C7_Witness ==
    \E c \in Calls :
        /\ Returned(c) /\ Len(Posts(c)) = 3
        /\ ~Posts(c)[1].ok

\* C8: in every send_voice call the log alternates post_voice, delay,
\* post_voice, ..., post_voice: one delay between any two consecutive
\* attempts, none before the first or after the last, n - 1 delays for n
\* attempts, whether or not post_voice calls fail.
C8_OneDelayBetweenAttempts ==
    \A c \in Calls :
        (reply[c].type = "VOICE" /\ Returned(c) /\ log[c] # <<>>)
            => /\ Len(log[c]) = 2 * Len(Posts(c)) - 1
               /\ \A k \in 1..Len(log[c]) :
                      log[c][k].op = IF k % 2 = 1 THEN "post_voice" ELSE "sleep"

\* C9: two concurrent delivery calls never touch each other's files: no call
\* creates, overwrites or deletes a path the other call created.
C9_NoInterference ==
    \A c \in Calls : \A o \in Calls \ {c} :
        (created[c] \cup deleted[c]) \cap created[o] = {}

\* ceil(D / C) for C > 0
CeilDiv(D, C) == CHOOSE n \in 0..D : n * C >= D /\ (n - 1) * C < D

RECURSIVE SumLengths(_)
SumLengths(ws) ==
    IF ws = <<>> THEN 0 ELSE (Head(ws)[2] - Head(ws)[1]) + SumLengths(Tail(ws))

\* C10: for D > C > 0 split_audio returns ceil(D/C) paths; segment k covers
\* [(k-1)*C, min(k*C, D)), so the windows are contiguous, none longer than
\* C, only the last may be shorter, their lengths sum to D, and the paths are
\* <base>_<k>.<ext> for k = 1, 2, ... in this order.
C10_SplitPartition ==
    (ret # NoRet /\ arg.D > arg.C) =>
        LET n == CeilDiv(arg.D, arg.C)
        IN  /\ ~ret.raised
            /\ ret.length = arg.D
            /\ Len(ret.files) = n
            /\ Len(ret.windows) = n
            /\ \A k \in 1..n :
                   /\ ret.windows[k] = <<(k - 1) * arg.C, Min(k * arg.C, arg.D)>>
                   /\ ret.windows[k][2] - ret.windows[k][1] <= arg.C
                   /\ k < n => ret.windows[k][2] - ret.windows[k][1] = arg.C
                   /\ k > 1 => ret.windows[k][1] = ret.windows[k - 1][2]
                   /\ ret.files[k] =
                          arg.stem \o <<"_">> \o IntToStr(k) \o <<".">> \o arg.ext
            /\ ret.windows[1][1] = 0
            /\ ret.windows[n][2] = arg.D
            /\ SumLengths(ret.windows) = arg.D

\* C10 happens: a split into at least three segments, the last one shorter
\* than the cap
C10_Witness ==
    /\ ret # NoRet
    /\ arg.D > 2 * arg.C
    /\ arg.D % arg.C # 0
    /\ Len(ret.files) >= 3

\* C11: when the total duration is at most the cap (D <= C, D = C and D = 0
\* included) split_audio returns (D, [original path]) and creates, copies or
\* rewrites no file: the only file there is still the source.
C11_ShortSourceUntouched ==
    (ret # NoRet /\ arg.D <= arg.C) =>
        /\ ~ret.raised
        /\ ret.length = arg.D
        /\ ret.files = <<arg.stem \o <<".">> \o arg.ext>>
        /\ created[1] = {}
        /\ fs = {AbsPath(arg.stem \o <<".">> \o arg.ext)}

\* C11 happens: split_audio has returned for a source exactly as long as the
\* cap
C11_Witness ==
    /\ ret # NoRet
    /\ arg.D = arg.C
    /\ Len(ret.files) = 1

\* the supported sample rates, as a set
SupportedRates == {8000, 12000, 16000, 24000, 32000, 44100, 48000}

\* C12: for every integer sample rate r, however large,
\* find_closest_sil_supports(r) is a supported rate at minimal absolute
\* difference from r; of two equally close ones it is the one listed first;
\* for a supported r it is r.
C12_ClosestSupportedRate ==
    (input.fn = "find_closest" /\ output.fn = "find_closest") =>
        LET r   == input.sample_rate
            out == output.closest
        IN  /\ out \in SupportedRates
            /\ \A s \in SupportedRates : Abs(out - r) <= Abs(s - r)
            /\ \A s \in SupportedRates :
                   Abs(s - r) = Abs(out - r) => out <= s
            /\ r \in SupportedRates => out = r

\* C13: Query.GET maps every request to exactly one outcome: the liveness
\* string for an empty `file`; the bytes of the file for a path inside the
\* temp root that exists; not-found for a path inside the temp root that
\* does not exist; forbidden for a path outside the temp root, existing or
\* not. Stated for the requests that do not name the temp root itself.
C13_GetOutcomes ==
    resp # NoResp =>
        LET clean_path == AbsPath(PathJoin(Cwd, req))
        IN  IF req = <<>> THEN resp.status = "alive"
            ELSE IF clean_path = TmpRoot THEN TRUE
            ELSE IF ~InsideTmpRoot(clean_path) THEN resp.status = "forbidden"
            ELSE IF clean_path \in fs
                 THEN resp.status = "bytes" /\ resp.path = clean_path
            ELSE resp.status = "notfound"

\* C14: for an image reply (ImageURL or Image) whose bytes were persisted to
\* a temp file exactly one provider call is made: post_file, with the base
\* name of the temp file as file name, when the bytes written start with a
\* GIF signature, post_image otherwise; when fetching or persisting failed,
\* no provider call is made.
C14_ImageOneProviderCall ==
    \A c \in Calls :
        (reply[c].type \in ImageTypes /\ Returned(c)) =>
            IF temp_files[c][1] # None
            THEN /\ Len(log[c]) = 1
                 /\ log[c][1].a = MediaUrl(temp_files[c][1])
                 /\ IF FirstSix(ImageHeader(c)) \in {GIF87a, GIF89a}
                    THEN /\ log[c][1].op = "post_file"
                         /\ log[c][1].b = Basename(temp_files[c][1])
                         /\ EndsWith(log[c][1].b, <<".", "g", "i", "f">>)
                    ELSE log[c][1].op = "post_image"
            ELSE log[c] = <<>>

\* C14 happens: an image handle holding a GIF was persisted, sent with
\* post_file, and send_image has returned
C14_Witness ==
    \E c \in Calls :
        /\ Returned(c) /\ reply[c].type = "IMAGE"
        /\ log[c] # <<>> /\ log[c][1].op = "post_file" /\ log[c][1].ok

\* C15: _detect_image_type returns .gif for every input (byte buffer or
\* file) whose first 6 bytes are GIF87a or GIF89a, .png for every other
\* input, the empty, truncated, absent and unreadable ones included, and
\* never raises.
C15_DetectBySignature ==
    (input.fn = "detect" /\ output.fn = "detect") =>
        LET from_file == input.file_path # None
            looked_at == IF from_file THEN input.file_bytes ELSE input.image_data
            unreadable == from_file /\ ~input.readable
            gif == /\ ~unreadable
                   /\ Len(looked_at) >= 6
                   /\ \/ SubSeq(looked_at, 1, 6) = <<"G", "I", "F", "8", "7", "a">>
                      \/ SubSeq(looked_at, 1, 6) = <<"G", "I", "F", "8", "9", "a">>
        IN  /\ ~output.raised
            /\ output.extension =
                   IF gif THEN <<".", "g", "i", "f">> ELSE <<".", "p", "n", "g">>

\* C15 happens: a file holding a GIF could not be read and was classified
\* as .png
C15_Witness ==
    /\ output.fn = "detect"
    /\ input.file_path # None /\ ~input.readable
    /\ input.file_bytes = <<"G", "I", "F", "8", "9", "a">>
    /\ output.extension = <<".", "p", "n", "g">>

\* C16: for a Text, Error or Info reply send makes exactly one post_text
\* call, with the reply content unchanged, and the mention argument is the
\* id of the originating sender exactly when the context carries an
\* originating message that is a group message; it is empty otherwise.
C16_TextOnceWithMention ==
    \A c \in Calls :
        (reply[c].type \in TextTypes /\ Returned(c)) =>
            /\ Len(log[c]) = 1
            /\ log[c][1].op = "post_text"
            /\ log[c][1].a = reply[c].content
            /\ log[c][1].b = IF reply[c].msg = "group" THEN ActualUserId ELSE <<>>
            /\ ActualUserId # <<>>

\* C16 happens: a text reply to a direct message was sent without a mention
C16_Witness ==
    \E c \in Calls :
        /\ Returned(c) /\ reply[c].type = "TEXT" /\ reply[c].msg = "direct"
        /\ log[c] # <<>> /\ log[c][1].ok /\ log[c][1].b = <<>>

IsPostVideo(e) == e.op = "post_video"

\* C17: send_video calls post_video at most once, and only when the source
\* could be opened and a first frame was decoded; when the source cannot be
\* opened, no frame can be decoded or reading the metadata raises (a frame
\* rate of 0), no post_video call is made and no poster file is created.
C17_VideoPostedOnlyWithFrame ==
    \A c \in Calls :
        reply[c].type = "VIDEO_URL" =>
            /\ Len(SelectSeq(log[c], IsPostVideo)) <= 1
            /\ log[c] # <<>> => video_info[c] = "frame"
            /\ video_info[c] \in {"not_opened", "no_frame", "metadata_raised"}
                   => /\ log[c] = <<>>
                      /\ created[c] = {}
                      /\ temp_files[c] = <<>>
                      /\ pc[c] = "done"

\* C17 happens: the frame rate was 0, reading the metadata raised, and
\* send_video has returned
C17_Witness ==
    \E c \in Calls :
        /\ reply[c].type = "VIDEO_URL" /\ Returned(c)
        /\ video_info[c] = "metadata_raised"

\* C18: for an App reply whose content is not a string, is empty or is
\* whitespace only no provider call is made; otherwise exactly one
\* post_app_msg call is made with the content unchanged; either way no file
\* is created or deleted.
C18_AppValidatedThenForwarded ==
    \A c \in Calls :
        (reply[c].type = "APP" /\ Returned(c)) =>
            /\ IF \/ ~reply[c].isstr
                  \/ \A k \in 1..Len(reply[c].content) :
                         reply[c].content[k] \in {" ", "\t", "\n", "\r"}
               THEN log[c] = <<>>
               ELSE /\ Len(log[c]) = 1
                    /\ log[c][1].op = "post_app_msg"
                    /\ log[c][1].a = reply[c].content
            /\ created[c] = {} /\ deleted[c] = {}

\* C18 happens: a whitespace-only string was refused without a provider call
C18_Witness ==
    \E c \in Calls :
        /\ reply[c].type = "APP" /\ Returned(c)
        /\ reply[c].isstr /\ reply[c].content = <<" ">>
        /\ log[c] = <<>>

\* C19: any_to_wav, for a source that is neither WAV nor silk, writes a WAV
\* of sample rate 8000 Hz and one channel, whatever the sample rate and
\* channel count of the source.
C19_WavIsMono8k ==
    (input.fn = "any_to_wav" /\ output.fn = "any_to_wav"
            /\ ~EndsWith(input.any_path, <<".", "w", "a", "v">>)
            /\ ~EndsWith(input.any_path, <<".", "s", "i", "l">>)
            /\ ~EndsWith(input.any_path, <<".", "s", "i", "l", "k">>)
            /\ ~EndsWith(input.any_path, <<".", "s", "l", "k">>))
        => /\ output.frame_rate = 8000
           /\ output.channels = 1

\* C20: mp3_to_silk leaves no intermediate PCM file behind on any outcome:
\* after each conversion of a send_voice call has returned, the .pcm file
\* named after its segment does not exist; stated for the calls in which no
\* removal was itself refused by the system.
C20_NoPcmLeftBehind ==
    \A c \in Calls :
        ~rmFailed[c] =>
            \A k \in 1..Len(conv[c]) : AbsPath(PcmPath(files[c][k])) \notin fs

\* C21: mp3_to_silk never raises; it returns a strictly positive duration
\* only when the source is an MP3 container and the encoder produced a silk
\* file of positive duration; it returns 0 when the source is not an MP3
\* container, when the encoder reports a non-positive duration, and on any
\* decode or I/O error.
C21_SilkOnlyFromMp3 ==
    (input.fn = "mp3_to_silk" /\ output.fn = "mp3_to_silk") =>
        /\ ~output.raised
        /\ output.ret >= 0
        /\ output.ret > 0 =>
               /\ input.container = "mp3"
               /\ input.e.kind = "encoded" /\ input.e.dur > 0
               /\ AbsPath(SilkPath(input.mp3_path, 1)) \in fs
        /\ input.container # "mp3" => output.ret = 0
        /\ (input.e.kind # "encoded" \/ input.e.dur <= 0) => output.ret = 0

\* C22: _delete_temp_file never raises and never changes the outcome of the
\* delivery that calls it: it removes the file when it exists; for a missing
\* path, a None path or a removal that fails it does nothing; it leaves
\* every other file untouched; and within one delivery it removes no path
\* that the delivery has removed before.
C22_DeleteTempFileIsSafe ==
    [][\A c \in Calls :
          Finally(c) =>
              LET file_path == temp_files[c][i[c]]
                  target    == IF file_path = None THEN {} ELSE {AbsPath(file_path)}
              IN  /\ raised' = raised
                  /\ log' = log
                  /\ pc'[c] \in {"finally", "done"}
                  /\ fs' \subseteq fs
                  /\ (fs \ fs') \subseteq target
                  /\ target \cap fs = {} => fs' = fs
                  /\ (rmFailed'[c] /\ ~rmFailed[c]) => fs' = fs
                  /\ ~rmFailed'[c] => target \cap fs' = {}
                  /\ (fs \ fs') \cap deleted[c] = {}]_vars

\* C22 happens: a delivery has returned after the removal of one of its temp
\* files failed and the removal of another one worked
C22_Witness ==
    \E c \in Calls :
        /\ Returned(c)
        /\ \E j, k \in 1..Len(temp_files[c]) :
               /\ temp_files[c][j] # None /\ temp_files[c][k] # None
               /\ AbsPath(temp_files[c][j]) \in fs
               /\ AbsPath(temp_files[c][j]) \in created[c]
               /\ AbsPath(temp_files[c][k]) \in deleted[c]

\* C23: when the voice source is missing (empty content, or no file at that
\* path) or its name does not end in .mp3, send_voice returns at once: it
\* makes no post_voice call, performs no split or conversion, and creates
\* and deletes no file.
C23_BadSourceDoesNothing ==
    [][\A c \in Calls :
          (/\ pc[c] = "start" /\ pc'[c] # "start"
           /\ reply[c].type = "VOICE"
           /\ \/ reply[c].content = <<>>
              \/ AbsPath(reply[c].content) \notin fs
              \/ ~EndsWith(reply[c].content, <<".", "m", "p", "3">>))
          => /\ pc'[c] = "done"
             /\ log'[c] = <<>>
             /\ files'[c] = <<>> /\ silk_files'[c] = <<>> /\ conv'[c] = <<>>
             /\ temp_files'[c] = <<>>
             /\ created'[c] = {} /\ deleted'[c] = {}
             /\ fs' = fs]_vars

\* C23 happens: send_voice has returned on a source that exists and is not
\* named .mp3
C23_Witness ==
    \E c \in Calls :
        /\ Returned(c) /\ reply[c].type = "VOICE"
        /\ reply[c].content = WavA /\ AbsPath(WavA) \in fs
        /\ log[c] = <<>>

\* C24: send_voice deletes only files created during the call: no step of
\* the call removes a file the call did not create, and the source
\* reply.content, once there, stays there, when the audio is longer than
\* 60 s and when it fits in one segment.
C24_SourceSurvives ==
    [][\A c \in Calls :
          (reply[c].type = "VOICE" /\ pc[c] # pc'[c]) =>
              /\ (fs \ fs') \subseteq created[c]
              /\ AbsPath(reply[c].content) \in fs
                     => AbsPath(reply[c].content) \in fs']_vars

\* the provider calls that carry a media URL, and the URL they carry
MediaOps == {"post_voice", "post_image", "post_file", "post_video"}

UrlOf(e) == IF e.op = "post_video" THEN e.b ELSE e.a

\* what follows <callback_url>?file= in a URL
UrlPath(url) == SubSeq(url, Len(CallbackUrl \o FileQuery) + 1, Len(url))

\* C25: every media URL passed to the provider (silk, image, poster) has the
\* form <callback_url>?file=<path> and is servable during the provider call
\* that carries it: a GET for it at the time of the call answers the file
\* bytes, the call leaves the files alone, and while a voice message is
\* being posted the silk files of all its remaining segments are served.
C25_MediaUrlServable ==
    /\ [](\A c \in Calls :
             pc[c] = "post" =>
                 \A k \in i[c]..Len(silk_files[c]) :
                     GET(UrlPath(silk_files[c][k][1])).status = "bytes")
    /\ [][\A c \in Calls :
             \A k \in (Len(log[c]) + 1)..Len(log'[c]) :
                 log'[c][k].op \in MediaOps =>
                     /\ StartsWith(UrlOf(log'[c][k]), CallbackUrl \o FileQuery)
                     /\ GET(UrlPath(UrlOf(log'[c][k]))).status = "bytes"
                     /\ fs' = fs]_vars

====
